---------------------------- MODULE Spec2Model ----------------------------
(***************************************************************************)
(* Node-removal robustness simulation of the airline network analysis:     *)
(* src/attack.py (simulate_random_attacks, simulate_targeted_attack,       *)
(* metrics_on_graph, removal_sequence_by_fraction, aggregate_random_df)    *)
(* and src/analysis_re.py                                                  *)
(* (get_giant_component, removal_curve, approx_efficiency, sample_pairs,   *)
(* nodes_order_by, country_knockout_impact_light).                         *)
(*                                                                         *)
(* A graph is a record [nodes, edges, country]: nodes is the sequence of   *)
(* node identifiers in the graph's enumeration order (networkx keeps       *)
(* insertion order), edges a set of two-element sets, country the node     *)
(* attribute read by the knock-out analysis (graphs of build_full_graph    *)
(* also carry lat, the Latitude attribute).  Real-valued results are       *)
(* exact rationals [nan, num, den] in lowest terms; nan marks numpy's NaN. *)
(***************************************************************************)
EXTENDS Integers, Sequences, FiniteSets, TLC

\* ------------------------------------------------------------------ bounds

\* General input graphs have 0..MaxNodes nodes (every edge set, every shape).
MaxNodes == 3
\* The shuffled trials and the outcomes the model does not compute but
\* enumerates (the float-valued library centralities, nodes_order_random), and
\* the caller-made lists of removal_curve, are explored on graphs of at most
\* MaxOracleNodes nodes.
MaxOracleNodes == 2
\* random.shuffle is followed for the first MaxShuffles calls after
\* random.seed(SEED).
MaxShuffles == 3
\* trials of simulate_random_attacks range over 1..MaxTrials.
MaxTrials == 2
\* steps of removal_sequence_by_fraction range over 1..MaxSteps.
MaxSteps == 2
\* qs of removal_curve has 1..MaxQs entries.
MaxQs == 2
\* m_pairs of removal_curve ranges over 0..MaxPairs.
MaxPairs == 1
\* removal_sequence_by_fraction on its own: lists of 0..MaxListLen nodes and
\* steps in 1..MaxScheduleSteps.
MaxListLen == 8
MaxScheduleSteps == 4
\* approx_efficiency on its own: m ranges over 0..MaxSamplePairs.
MaxSamplePairs == 2
\* build_full_graph: tables of 0..MaxAirportRows airport rows and
\* 0..MaxRouteRows route rows.
MaxAirportRows == 2
MaxRouteRows == 1
\* Library centrality scores are abstracted to levels 0..MaxScore.
MaxScore == 1

\* ------------------------------------------------------------- rationals

RECURSIVE Gcd(_, _)
Gcd(a, b) == IF b = 0 THEN a ELSE Gcd(b, a % b)

Abs(x) == IF x < 0 THEN -x ELSE x

\* The float num/den of two small integers, kept exact (den > 0).
Rat(num, den) ==
    LET g == Gcd(Abs(num), den)
    IN  [nan |-> FALSE, num |-> num \div g, den |-> den \div g]

NaN == [nan |-> TRUE, num |-> 0, den |-> 1]

Zero == Rat(0, 1)

RAdd(x, y) == Rat(x.num * y.den + y.num * x.den, x.den * y.den)

RDivInt(x, k) == Rat(x.num, x.den * k)

\* x <= y on non-NaN values; any comparison with NaN is false, as in Python.
RLeq(x, y) == ~x.nan /\ ~y.nan /\ x.num * y.den <= y.num * x.den

\* ----------------------------------------------------------------- graphs

Range(s) == {s[i] : i \in 1..Len(s)}

NodeSet(g) == Range(g.nodes)

EmptyGraph == [nodes |-> <<>>, edges |-> {}, country |-> <<>>]

\* G.has_node(v) / v in G
HasNode(g, v) == v \in NodeSet(g)

\* neighbours of v
Adj(g, v) == {u \in NodeSet(g) : {u, v} \in g.edges}

\* G.degree(v)
Degree(g, v) == Cardinality(Adj(g, v))

\* The subsequence of s whose elements satisfy membership in keep.
RECURSIVE FilterSeq(_, _)
FilterSeq(s, keep) ==
    IF s = <<>> THEN <<>>
    ELSE IF Head(s) \in keep THEN <<Head(s)>> \o FilterSeq(Tail(s), keep)
    ELSE FilterSeq(Tail(s), keep)

\* g restricted to the nodes that the sequence nodes lists, enumerated in that
\* order: the edges between them and the attributes of the nodes that are
\* left (lat is an attribute of the graphs that build_full_graph makes).
Restricted(g, nodes) ==
    IF "lat" \in DOMAIN g
    THEN [nodes   |-> nodes,
          edges   |-> {e \in g.edges : e \subseteq Range(nodes)},
          country |-> g.country,
          lat     |-> [v \in Range(nodes) |-> g.lat[v]]]
    ELSE [nodes   |-> nodes,
          edges   |-> {e \in g.edges : e \subseteq Range(nodes)},
          country |-> g.country]

\* A removal that drops the node and leaves its edges in place.
RemoveNodeKeepEdges(g, v) ==
    [g EXCEPT !.nodes = FilterSeq(g.nodes, NodeSet(g) \ {v})]

\* G.remove_node(v): drops v, its attributes and every edge incident to v; the
\* other nodes keep their places in the enumeration order.
RemoveNode(g, v) == Restricted(g, FilterSeq(g.nodes, NodeSet(g) \ {v}))

\* G.remove_nodes_from(vs)
RemoveNodesFrom(g, vs) == Restricted(g, FilterSeq(g.nodes, NodeSet(g) \ vs))

\* _plain_bfs: the set of nodes reachable from the frontier.
RECURSIVE Reach(_, _, _)
Reach(g, frontier, seen) ==
    IF frontier = {} THEN seen
    ELSE LET next == UNION {Adj(g, v) : v \in frontier} \ seen
         IN  Reach(g, next, seen \cup next)

ComponentOf(g, v) == Reach(g, {v}, {v})

\* nx.connected_components(G): one component per not-yet-seen node, in the
\* graph's enumeration order.
RECURSIVE ComponentsFrom(_, _, _)
ComponentsFrom(g, order, seen) ==
    IF order = <<>> THEN <<>>
    ELSE IF Head(order) \in seen THEN ComponentsFrom(g, Tail(order), seen)
    ELSE LET c == ComponentOf(g, Head(order))
         IN  <<c>> \o ComponentsFrom(g, Tail(order), seen \cup c)

connected_components(g) == ComponentsFrom(g, g.nodes, {})

\* The first component, whatever its size (max without key=len on an ordering
\* that happens to favour it).
MaxByLenFirst(comps) == comps[1]

\* max(comps, key=len) of a non-empty list: the first component of maximal size.
MaxByLen(comps) ==
    LET best == CHOOSE i \in 1..Len(comps) :
                    /\ \A j \in 1..Len(comps) :
                           Cardinality(comps[j]) <= Cardinality(comps[i])
                    /\ \A j \in 1..(i - 1) :
                           Cardinality(comps[j]) < Cardinality(comps[i])
    IN  comps[best]

\* Shortest-path length from the frontier (at distance d) to t; -1 if no path.
RECURSIVE DistFrom(_, _, _, _, _)
DistFrom(g, frontier, seen, t, d) ==
    IF t \in frontier THEN d
    ELSE IF frontier = {} THEN -1
    ELSE LET next == UNION {Adj(g, v) : v \in frontier} \ seen
         IN  DistFrom(g, next, seen \cup next, t, d + 1)

Dist(g, s, t) == DistFrom(g, {s}, {s}, t, 0)

\* Sum of f[x] for x in S (integers, then rationals), the equal terms taken
\* together.
RECURSIVE SumIntOver(_, _)
SumIntOver(f, S) ==
    IF S = {} THEN 0
    ELSE LET x    == CHOOSE y \in S : TRUE
             same == {y \in S : f[y] = f[x]}
         IN  f[x] * Cardinality(same) + SumIntOver(f, S \ same)

SumInt(f) == SumIntOver(f, DOMAIN f)

RECURSIVE SumRatOver(_, _)
SumRatOver(f, S) ==
    IF S = {} THEN Zero
    ELSE LET x    == CHOOSE y \in S : TRUE
             same == {y \in S : f[y] = f[x]}
         IN  RAdd(Rat(f[x].num * Cardinality(same), f[x].den),
                  SumRatOver(f, S \ same))

SumRat(f) == SumRatOver(f, DOMAIN f)

OrderedPairs(S) == {p \in S \X S : p[1] # p[2]}

\* ------------------------------------------------------- sorting helpers

RemoveAt(s, i) == SubSeq(s, 1, i - 1) \o SubSeq(s, i + 1, Len(s))

\* A descending sort that reverses the order of equal keys (an ascending sort,
\* then reversed).
RECURSIVE SortedDescLastTie(_, _)
SortedDescLastTie(s, key) ==
    IF s = <<>> THEN <<>>
    ELSE LET i == CHOOSE i \in 1..Len(s) :
                      /\ \A j \in 1..Len(s) : key[s[j]] <= key[s[i]]
                      /\ \A j \in (i + 1)..Len(s) : key[s[j]] < key[s[i]]
         IN  <<s[i]>> \o SortedDescLastTie(RemoveAt(s, i), key)

\* sorted(s, key=..., reverse=True): descending by key; Python's sort is stable
\* under reverse=True, so equal keys keep their order in s.
RECURSIVE SortedDesc(_, _)
SortedDesc(s, key) ==
    IF s = <<>> THEN <<>>
    ELSE LET i == CHOOSE i \in 1..Len(s) :
                      /\ \A j \in 1..Len(s) : key[s[j]] <= key[s[i]]
                      /\ \A j \in 1..(i - 1) : key[s[j]] < key[s[i]]
         IN  <<s[i]>> \o SortedDesc(RemoveAt(s, i), key)

\* sorted(S) of a set of integers, ascending.
RECURSIVE SortedAsc(_)
SortedAsc(S) ==
    IF S = {} THEN <<>>
    ELSE LET m == CHOOSE x \in S : \A y \in S : x <= y
         IN  <<m>> \o SortedAsc(S \ {m})

\* The sequences that list every element of S exactly once.
RECURSIVE PermSeqs(_)
PermSeqs(S) ==
    IF S = {} THEN {<<>>}
    ELSE UNION {{<<x>> \o p : p \in PermSeqs(S \ {x})} : x \in S}

\* ------------------------------------------------------- G.subgraph

\* The orders in which the view G.subgraph(keep), and a copy of it, enumerate
\* their nodes: networkx walks G's nodes and keeps those of the set, unless
\* the set has fewer than half as many nodes as G; then it walks the Python
\* set, whose iteration order follows the hashes of the identifiers (for
\* string identifiers, the hash seed of the process): any order.
SubgraphOrders(g, keep) ==
    IF 2 * Cardinality(keep) < Len(g.nodes)
    THEN PermSeqs(keep)
    ELSE {FilterSeq(g.nodes, keep)}

\* A subgraph that keeps the nodes and drops every edge.
SubgraphNodesOnly(g, keep) ==
    {[Restricted(g, o) EXCEPT !.edges = {}] : o \in SubgraphOrders(g, keep)}

\* G.subgraph(keep), keep a set of nodes of G: the induced subgraph, in each
\* enumeration order the view can have.
Subgraph(g, keep) == {Restricted(g, o) : o \in SubgraphOrders(g, keep)}

\* ------------------------------------------------ get_giant_component

\* An extraction that hands a graph without nodes back instead of failing.
GiantComponentOrInput(g) ==
    IF Len(g.nodes) = 0
    THEN {[raised |-> FALSE, value |-> g]}
    ELSE {[raised |-> FALSE, value |-> sub] :
             sub \in Subgraph(g, MaxByLen(connected_components(g)))}

\* get_giant_component (analysis_re.py): the outcomes of the induced subgraph,
\* copied, on max(nx.connected_components(G_full), key=len).  On a graph
\* without nodes max() of the empty iterator raises ValueError and nothing is
\* returned.
get_giant_component(g) ==
    IF Len(g.nodes) = 0
    THEN {[raised |-> TRUE, value |-> EmptyGraph]}
    ELSE {[raised |-> FALSE, value |-> sub] :
             sub \in Subgraph(g, MaxByLen(connected_components(g)))}

\* len(max(nx.connected_components(G), key=len))
GiantSize(g) == Cardinality(MaxByLen(connected_components(g)))

\* ---------------------------------------------------- metrics_on_graph

\* nx.clustering(G, v): 2T / (d (d - 1)), 0 when d < 2.
Clustering(g, v) ==
    LET nb == Adj(g, v)
        d  == Cardinality(nb)
        t  == Cardinality({e \in g.edges : e \subseteq nb})
    IN  IF d < 2 THEN Zero ELSE Rat(2 * t, d * (d - 1))

\* nx.average_clustering(G), G non-empty
average_clustering(g) ==
    RDivInt(SumRat([v \in NodeSet(g) |-> Clustering(g, v)]), Len(g.nodes))

\* nx.average_shortest_path_length(G): 0 for a single node, the mean distance
\* over ordered pairs for a connected graph; raises on an empty or a
\* disconnected graph (callers here pass a connected component).
average_shortest_path_length(g) ==
    LET n == Len(g.nodes)
    IN  IF n = 1 THEN Zero
        ELSE Rat(SumInt([p \in OrderedPairs(NodeSet(g)) |-> Dist(g, p[1], p[2])]),
                 n * (n - 1))

\* nx.global_efficiency(G): mean of 1/d over ordered pairs, pairs without a
\* path adding nothing to the sum; 0 when n < 2.
global_efficiency(g) ==
    LET n == Len(g.nodes)
        inv(p) == LET d == Dist(g, p[1], p[2])
                  IN  IF d > 0 THEN Rat(1, d) ELSE Zero
    IN  IF n * (n - 1) = 0 THEN Zero
        ELSE RDivInt(SumRat([p \in OrderedPairs(NodeSet(g)) |-> inv(p)]),
                     n * (n - 1))

\* The denominator of lcc_fraction: metrics['n_nodes'], the node count of the
\* graph handed to metrics_on_graph (the reduced working graph).
LccDenominatorOriginal(g, n0) == n0

LccDenominator(g, n0) == Len(g.nodes)

\* metrics_on_graph(G) (attack.py); n0 is the input graph's node count, which the
\* code does not use.  No metric reads the enumeration order of lcc_sub, so
\* any of its orders gives the row.
metrics_on_graph(g, n0) ==
    IF Len(g.nodes) = 0
    THEN [n_nodes |-> 0, n_edges |-> 0, lcc_size |-> 0, lcc_fraction |-> Zero,
          avg_path_length |-> NaN, avg_clustering |-> NaN,
          global_efficiency |-> Zero, n_components |-> 0]
    ELSE LET comps   == connected_components(g)
             lcc     == MaxByLen(comps)
             lcc_sub == CHOOSE sub \in Subgraph(g, lcc) : TRUE
             size    == Len(lcc_sub.nodes)
         IN  [n_nodes |-> Len(g.nodes),
              n_edges |-> Cardinality(g.edges),
              lcc_size |-> size,
              lcc_fraction |-> Rat(size, LccDenominator(g, n0)),
              avg_path_length |-> IF size > 1
                                  THEN average_shortest_path_length(lcc_sub)
                                  ELSE NaN,
              avg_clustering |-> average_clustering(g),
              global_efficiency |-> global_efficiency(g),
              n_components |-> Len(comps)]

\* ---------------------------------------- removal_sequence_by_fraction

\* int(round(p / q)) for p >= 0, q > 0: Python rounds halves to the even integer.
RoundHalfEven(p, q) ==
    LET fl == p \div q
        r2 == 2 * (p % q)
    IN  IF r2 < q THEN fl
        ELSE IF r2 > q THEN fl + 1
        ELSE IF fl % 2 = 0 THEN fl ELSE fl + 1

\* The list of cumulative counts before `sorted(set(cum))`.
removal_sequence_raw(n, steps, frac) ==
    LET max_remove == (n * frac.num) \div frac.den
    IN  [j \in 1..(steps + 1) |-> RoundHalfEven((j - 1) * max_remove, steps)]

\* removal_sequence_by_fraction(nodes_list, steps, max_frac) for n = len(nodes_list)
\* and max_frac = frac.num / frac.den (a binary fraction, exact as a float).
removal_sequence_by_fraction(n, steps, frac) ==
    LET max_remove == (n * frac.num) \div frac.den
        cum == [i \in 0..steps |-> RoundHalfEven(i * max_remove, steps)]
    IN  SortedAsc({cum[i] : i \in 0..steps})

\* ---------------------------------------------------------- orderings

\* G.degree(): the degree of every node, in enumeration order.
DegreeMap(g) == [v \in NodeSet(g) |-> Degree(g, v)]

\* The degree order without reverse=True: lowest degree first.
DegreeOrderAscending(g) ==
    SortedDesc(g.nodes, [v \in NodeSet(g) |-> 0 - Degree(g, v)])

\* [n for n,_ in sorted(G.degree(), key=lambda x: x[1], reverse=True)]
DegreeOrder(g) == SortedDesc(g.nodes, DegreeMap(g))

\* The strategy identifiers: 'degree' is computed exactly; the library
\* centralities of attack.py are float scores the model does not compute, so
\* their dictionary is any score assignment (levels 0..MaxScore).
NetworkxKeys == {"betweenness", "closeness", "eigenvector"}

Keys == {"degree", "bogus"} \cup NetworkxKeys

ScoreMaps(g) == [NodeSet(g) -> 0..MaxScore]

\* sorted(centrality.keys(), key=lambda x: centrality[x], reverse=True); the
\* dictionary's keys are in the graph's enumeration order.
CentralityOrder(g, centrality) == SortedDesc(g.nodes, centrality)

\* ------------------------------------------------------------ inputs

AllEdges(n) == {{a, b} : a, b \in 1..n} \ {{a} : a \in 1..n}

\* The country attribute of the airports of an input graph.
DefaultCountry(n) == [i \in 1..n |-> 1 + (i % 2)]

MkGraph(n, E) == [nodes |-> [i \in 1..n |-> i], edges |-> E,
                  country |-> DefaultCountry(n)]

GeneralGraphs == UNION {{MkGraph(n, E) : E \in SUBSET AllEdges(n)} : n \in 0..MaxNodes}

\* The path A-B-C-D in every assignment of the four identifiers.
PathNodes == {1, 2, 3, 4}

PathGraphs ==
    {MkGraph(4, {{p[1], p[2]}, {p[2], p[3]}, {p[3], p[4]}}) : p \in PermSeqs(PathNodes)}

\* The star with hub h and 5 leaves, the hub at every enumeration position.
StarNodes == {1, 2, 3, 4, 5, 6}

StarGraph(h) == MkGraph(6, {{h, l} : l \in StarNodes \ {h}})

StarGraphs == {StarGraph(h) : h \in StarNodes}

\* The cycle 1-2-3-4-1: after the removal of node 1 the node that comes next in
\* the degree order of the whole graph (2) is no longer one of highest degree.
CycleGraph == MkGraph(4, {{1, 2}, {2, 3}, {3, 4}, {1, 4}})

\* Five airports enumerated 3, 1, 2, 4, 5 and the one route 3-1: the giant
\* component has fewer than half of the nodes.
SmallGiantGraph ==
    [nodes |-> <<3, 1, 2, 4, 5>>, edges |-> {{1, 3}}, country |-> DefaultCountry(5)]

InputGraphs ==
    GeneralGraphs \cup PathGraphs \cup StarGraphs \cup {CycleGraph, SmallGiantGraph}

\* Fractions of the node count (the entries of qs, max_frac): binary
\* fractions, exact as floats.
Fracs == {Rat(0, 1), Rat(1, 4), Rat(1, 2), Rat(1, 1)}

\* max_frac: a fraction of the node count, or a value above 1 (the parameter is
\* not validated), which puts the last target above the node count.
MaxFracs == Fracs \cup {Rat(3, 2)}

\* qs: non-decreasing sequences of fractions (np.linspace-like), 1..MaxQs long.
QsChoices ==
    UNION {{q \in [1..len -> Fracs] :
                \A i \in 1..(len - 1) : RLeq(q[i], q[i + 1])} : len \in 1..MaxQs}

\* ------------------------------------------------------------- state

VARIABLES
    G,            \* the caller's graph object
    G_in,         \* the value G had when it was handed over (never assigned)
    Gc,           \* the object G.copy() created (G0 / G_work / H / H_tmp)
    wref,         \* the object the working name is bound to: "copy" or "caller"
    pc,           \* position: "idle", a loop position, "done" or "error"
    call,         \* the running entry point and its arguments
    order,        \* perm / current_order / the rest of order_iter / all_countries
    removed,      \* removed_set (random), removed (targeted)
    remove_count, \* remove_count of removal_curve
    ci,           \* index of the schedule entry being processed (1-based)
    trial,        \* t of simulate_random_attacks
    results,      \* results / res: the rows appended so far
    err,          \* the exception that ended the call, "none" otherwise
    ret,          \* the graph returned by the latest get_giant_component call
    retPrev,      \* the argument of that call
    applied,      \* how many times get_giant_component has been applied in a row
    snaps,        \* history: the working graph as it was at each appended row
    rng,          \* random.shuffle calls made since random.seed(SEED) at import
    agg           \* df_random_agg: the rows aggregate_random_df returned

vars == <<G, G_in, Gc, wref, pc, call, order, removed, remove_count, ci, trial,
          results, err, ret, retPrev, applied, snaps, rng, agg>>

\* The scores of a centrality dictionary as levels: a node's level is the
\* number of different scores below its own, so that two dictionaries with the
\* same comparisons between all their entries have the same levels.
Levels(c) == [v \in DOMAIN c |-> Cardinality({c[u] : u \in {w \in DOMAIN c : c[w] < c[v]}})]

\* The arguments and locals of the call in progress; order0 is the ordering
\* the call started with (order_list, nodes_order) and centrality the levels
\* of the dictionary that the current ranking was sorted by (G.degree() for
\* 'degree').
NoCall == [fn |-> "none", key |-> "none", adaptive |-> FALSE, trials |-> 0,
           cum |-> <<>>, qs |-> <<>>, m_pairs |-> 0, n |-> 0, gcc0 |-> 0,
           order0 |-> <<>>, centrality |-> <<>>]

\* The graph the working name refers to.
W == IF wref = "copy" THEN Gc ELSE G

Init ==
    /\ G \in InputGraphs
    /\ G_in = G
    /\ Gc = EmptyGraph
    /\ wref = "copy"
    /\ pc = "idle"
    /\ call = NoCall
    /\ order = <<>>
    /\ removed = {}
    /\ remove_count = 0
    /\ ci = 1
    /\ trial = 0
    /\ results = <<>>
    /\ err = "none"
    /\ ret = EmptyGraph
    /\ retPrev = EmptyGraph
    /\ applied = 0
    /\ snaps = <<>>
    /\ rng = 0
    /\ agg = <<>>

\* G.copy(): a new graph object, so the working name is bound to the copy.
GraphCopyAliased == "caller"

GraphCopy == "copy"

\* A removal applied to a new copy of the caller's graph each time, which
\* undoes the removals made before it.
RemoveFromWorkingOnFreshCopy(v) ==
    IF wref = "copy"
    THEN /\ Gc' = RemoveNode(G, v)
         /\ G' = G
    ELSE /\ G' = RemoveNode(G, v)
         /\ Gc' = Gc

\* W.remove_node(v) on whichever object the working name is bound to.
RemoveFromWorking(v) ==
    IF wref = "copy"
    THEN /\ Gc' = RemoveNode(Gc, v)
         /\ G' = G
    ELSE /\ G' = RemoveNode(G, v)
         /\ Gc' = Gc

Raise(e) ==
    /\ pc' = "error"
    /\ err' = e

\* The loop tests `while len(removed_set) < k`, `while len(removed) < k` and
\* `while remove_count < target_remove`.
NeedsRemovalInclusive(count, k) == count <= k

NeedsRemoval(count, k) == count < k

ResetLocals ==
    /\ Gc' = EmptyGraph
    /\ wref' = "copy"
    /\ order' = <<>>
    /\ removed' = {}
    /\ remove_count' = 0
    /\ ci' = 1
    /\ trial' = 0
    /\ results' = <<>>
    /\ snaps' = <<>>
    /\ err' = "none"
    /\ agg' = <<>>

\* A row of the DataFrame of simulate_random_attacks / simulate_targeted_attack:
\* the metrics plus the bookkeeping columns; k / n is removed_frac.
RandomRow(m, t, k, n) ==
    [n_nodes |-> m.n_nodes, n_edges |-> m.n_edges, lcc_size |-> m.lcc_size,
     lcc_fraction |-> m.lcc_fraction, avg_path_length |-> m.avg_path_length,
     avg_clustering |-> m.avg_clustering, global_efficiency |-> m.global_efficiency,
     n_components |-> m.n_components,
     trial |-> t, removed_count |-> k, removed_frac |-> Rat(k, n)]

TargetedRow(m, key, adaptive, k, n) ==
    [n_nodes |-> m.n_nodes, n_edges |-> m.n_edges, lcc_size |-> m.lcc_size,
     lcc_fraction |-> m.lcc_fraction, avg_path_length |-> m.avg_path_length,
     avg_clustering |-> m.avg_clustering, global_efficiency |-> m.global_efficiency,
     n_components |-> m.n_components,
     method |-> <<"targeted_", key>>, adaptive |-> adaptive, removed_count |-> k,
     removed_frac |-> Rat(k, n)]

\* ------------------------------------------- simulate_random_attacks

\* SEED of attack.py: random.seed(SEED) runs once, when the module is loaded.
SEED == 42

\* ShuffleTable[SEED][n + 1][p]: what CPython's random.shuffle makes of [1, ..., n]
\* at the p-th shuffle of an n-element list after random.seed(SEED).
ShuffleTable ==
    [seed \in {SEED} |->
      << <<<<>>, <<>>, <<>>, <<>>, <<>>, <<>>>>,
         <<<<1>>, <<1>>, <<1>>, <<1>>, <<1>>, <<1>>>>,
         <<<<2, 1>>, <<2, 1>>, <<1, 2>>, <<2, 1>>, <<2, 1>>, <<2, 1>>>>,
         <<<<2, 1, 3>>, <<3, 2, 1>>, <<2, 3, 1>>, <<2, 3, 1>>, <<2, 1, 3>>, <<1, 2, 3>>>>,
         <<<<3, 2, 4, 1>>, <<4, 3, 1, 2>>, <<2, 4, 3, 1>>, <<2, 3, 1, 4>>, <<2, 3, 4, 1>>,
           <<2, 4, 3, 1>>>> >>]

\* perm after random.shuffle(perm) when this is the p-th shuffle since the seed:
\* the positions move as the table says, whatever the list holds.
Shuffled(nodes, p) ==
    [i \in 1..Len(nodes) |-> nodes[ShuffleTable[SEED][Len(nodes) + 1][p][i]]]

\* Entry: nodes, n, cum_removes, results = [] (attack.py 77-80).
StartRandom(trials, steps, frac) ==
    /\ pc = "idle"
    /\ Len(G.nodes) <= MaxOracleNodes
    /\ rng + trials <= MaxShuffles
    /\ call' = [NoCall EXCEPT !.fn = "random", !.trials = trials,
                              !.cum = removal_sequence_by_fraction(Len(G.nodes), steps, frac),
                              !.n = Len(G.nodes)]
    /\ pc' = "random_trial"
    /\ ResetLocals
    /\ UNCHANGED <<G, G_in, rng, ret, retPrev, applied>>

\* for t in range(trials): G0 = G.copy(); perm = nodes.copy();
\* random.shuffle(perm); removed_set = set()   (attack.py 81-85).  The shuffle
\* draws from the module-level generator, which goes on from where the previous
\* shuffle left it.
RandomBeginTrial ==
    /\ pc = "random_trial"
    /\ wref' = GraphCopy
    /\ Gc' = G
    /\ order' = Shuffled(G.nodes, rng + 1)
    /\ rng' = rng + 1
    /\ removed' = {}
    /\ ci' = 1
    /\ pc' = "random_loop"
    /\ UNCHANGED <<G, G_in, agg, call, remove_count, trial, results, err, ret, retPrev,
                   applied, snaps>>

\* One pass of `while len(removed_set) < k` (attack.py 89-93).
RandomRemove ==
    /\ pc = "random_loop"
    /\ NeedsRemoval(Cardinality(removed), call.cum[ci])
    /\ IF Cardinality(removed) + 1 > Len(order)
       THEN /\ Raise("IndexError")
            /\ UNCHANGED <<G, Gc, removed>>
       ELSE LET node_to_remove == order[Cardinality(removed) + 1]
            IN  /\ removed' = removed \cup {node_to_remove}
                /\ IF HasNode(W, node_to_remove)
                   THEN RemoveFromWorking(node_to_remove)
                   ELSE UNCHANGED <<G, Gc>>
                /\ UNCHANGED <<pc, err>>
    /\ UNCHANGED <<G_in, agg, rng, wref, call, order, remove_count, ci, trial, results, ret,
                   retPrev, applied, snaps>>

\* The checkpoint of schedule entry k (attack.py 94-96); k / n raises
\* ZeroDivisionError for a graph without nodes.  After the last entry the
\* next trial starts, or the DataFrame is returned.
RandomCheckpoint ==
    /\ pc = "random_loop"
    /\ ~NeedsRemoval(Cardinality(removed), call.cum[ci])
    /\ IF call.n = 0
       THEN /\ Raise("ZeroDivisionError")
            /\ UNCHANGED <<results, snaps, ci, trial>>
       ELSE /\ results' = Append(results,
                    RandomRow(metrics_on_graph(W, call.n), trial, call.cum[ci], call.n))
            /\ snaps' = Append(snaps, W)
            /\ err' = err
            /\ IF ci < Len(call.cum)
               THEN /\ ci' = ci + 1
                    /\ UNCHANGED <<trial, pc>>
               ELSE /\ trial' = trial + 1
                    /\ ci' = ci
                    /\ pc' = IF trial + 1 < call.trials THEN "random_trial" ELSE "done"
    /\ UNCHANGED <<G, G_in, agg, rng, Gc, wref, call, order, removed, remove_count, ret,
                   retPrev, applied>>

\* ------------------------------------------------ aggregate_random_df

RSub(x, y) == Rat(x.num * y.den - y.num * x.den, x.den * y.den)

RMul(x, y) == Rat(x.num * y.num, x.den * y.den)

\* 'mean' of a group's column: NaN entries are skipped; NaN when none is left.
SeriesMean(vals) ==
    LET nn == {i \in DOMAIN vals : ~vals[i].nan}
    IN  IF nn = {} THEN NaN
        ELSE RDivInt(SumRat([i \in nn |-> vals[i]]), Cardinality(nn))

\* 'std' of a group's column, kept exact as its square: pandas divides the sum
\* of squared deviations by count - 1 (ddof = 1), so the result is NaN for a
\* group with fewer than two non-NaN entries; sqrt keeps 0 and NaN as they are.
SeriesStdSquared(vals) ==
    LET nn == {i \in DOMAIN vals : ~vals[i].nan}
        mu == SeriesMean(vals)
    IN  IF Cardinality(nn) <= 1 THEN NaN
        ELSE RDivInt(SumRat([i \in nn |-> RMul(RSub(vals[i], mu), RSub(vals[i], mu))]),
                     Cardinality(nn) - 1)

\* The group keys in ascending order (groupby sorts them).
RECURSIVE SortedFracs(_)
SortedFracs(S) ==
    IF S = {} THEN <<>>
    ELSE LET m == CHOOSE x \in S : \A y \in S : RLeq(x, y)
         IN  <<m>> \o SortedFracs(S \ {m})

\* The columns aggregate_random_df aggregates.
AggColumns == {"lcc_fraction", "avg_path_length", "global_efficiency", "n_components"}

\* The entries of a column in the rows of one removed_frac, as floats.
GroupColumn(rows, f, name) ==
    LET grp == SelectSeq(rows, LAMBDA r : r.removed_frac = f)
    IN  [i \in 1..Len(grp) |->
            IF name = "n_components" THEN Rat(grp[i].n_components, 1) ELSE grp[i][name]]

\* aggregate_random_df(df_random) (attack.py 170-181): one row per removed_frac
\* with <column>_mean and <column>_std (std as its square).
aggregate_random_df(rows) ==
    LET keys == SortedFracs({rows[i].removed_frac : i \in DOMAIN rows})
    IN  [j \in 1..Len(keys) |->
            [removed_frac |-> keys[j],
             mean |-> [name \in AggColumns |-> SeriesMean(GroupColumn(rows, keys[j], name))],
             std  |-> [name \in AggColumns |->
                          SeriesStdSquared(GroupColumn(rows, keys[j], name))]]]

\* df_random_agg = aggregate_random_df(df_random) on the DataFrame that
\* simulate_random_attacks returned (attack.py 246-251).
AggregateRandom ==
    /\ pc = "done"
    /\ call.fn = "random"
    /\ agg = <<>>
    /\ agg' = aggregate_random_df(results)
    /\ UNCHANGED <<G, G_in, Gc, wref, pc, call, order, removed, remove_count, ci, trial,
                   results, err, ret, retPrev, applied, snaps, rng>>

\* ------------------------------------------ simulate_targeted_attack

Ok(o, c) == [raised |-> "none", order |-> o, centrality |-> c]

Raised(e) == [raised |-> e, order |-> <<>>, centrality |-> <<>>]

\* A ranking step without the final `else: raise ValueError`: every key is
\* ranked by degree.
TargetedOrderingsLenient(g, key) == {Ok(DegreeOrder(g), DegreeMap(g))}

\* The outcomes of computing the ordering of graph g for a strategy of
\* attack.py (110-127, 145-159): the degree order; for a library centrality
\* every ordering a score assignment can give; eigenvector_centrality_numpy and
\* its fallback nx.eigenvector_centrality both raise on a graph without nodes,
\* and the fallback raises when the power iteration does not converge.
TargetedOrderings(g, key) ==
    CASE key = "degree" -> {Ok(DegreeOrder(g), DegreeMap(g))}
      [] key \in {"betweenness", "closeness"} ->
            {Ok(CentralityOrder(g, c), c) : c \in ScoreMaps(g)}
      [] key = "eigenvector" ->
            IF Len(g.nodes) = 0
            THEN {Raised("NetworkXPointlessConcept")}
            ELSE {Ok(CentralityOrder(g, c), c) : c \in ScoreMaps(g)}
                 \cup {Raised("PowerIterationFailedConvergence")}
      [] OTHER -> {Raised("ValueError")}

\* Entry up to the loop: cum_removes, results = [], G_work = G.copy(), the
\* initial order_list, removed = set(), current_order (attack.py 103-130).
StartTargeted(key, adaptive, steps, frac) ==
    /\ pc = "idle"
    /\ key \in NetworkxKeys => Len(G.nodes) <= MaxOracleNodes
    /\ wref' = GraphCopy
    /\ Gc' = G
    /\ \E out \in TargetedOrderings(G, key) :
          /\ call' = [NoCall EXCEPT !.fn = "targeted", !.key = key, !.adaptive = adaptive,
                          !.cum = removal_sequence_by_fraction(Len(G.nodes), steps, frac),
                          !.n = Len(G.nodes),
                          !.order0 = out.order, !.centrality = Levels(out.centrality)]
          /\ IF out.raised # "none"
             THEN /\ Raise(out.raised)
                  /\ order' = <<>>
             ELSE /\ order' = out.order
                  /\ pc' = "targeted_loop"
                  /\ err' = "none"
    /\ removed' = {}
    /\ remove_count' = 0
    /\ ci' = 1
    /\ trial' = 0
    /\ results' = <<>>
    /\ snaps' = <<>>
    /\ UNCHANGED <<G, G_in, agg, rng, ret, retPrev, applied>>

\* `if adaptive:` (attack.py 143): whether the ranking is computed again after
\* a removal.
RecomputesNever(adaptive) == FALSE

Recomputes(adaptive) == adaptive

\* One pass of `while len(removed) < k and len(current_order) > 0`
\* (attack.py 135-161): take the head of current_order, remove it if it is
\* still in G_work, and in adaptive mode recompute current_order on the reduced
\* graph, filtered by `not in removed`.
TargetedRemove ==
    /\ pc = "targeted_loop"
    /\ NeedsRemoval(Cardinality(removed), call.cum[ci])
    /\ Len(order) > 0
    /\ LET target  == Head(order)
           has     == HasNode(W, target)
           newW    == IF has THEN RemoveNode(W, target) ELSE W
           newRem  == IF has THEN removed \cup {target} ELSE removed
       IN  /\ IF has THEN RemoveFromWorking(target) ELSE UNCHANGED <<G, Gc>>
           /\ removed' = newRem
           /\ IF Recomputes(call.adaptive)
              THEN \E out \in TargetedOrderings(newW, call.key) :
                      IF out.raised # "none"
                      THEN /\ Raise(out.raised)
                           /\ order' = Tail(order)
                           /\ call' = call
                      ELSE /\ order' = FilterSeq(out.order, NodeSet(newW) \ newRem)
                           /\ call' = [call EXCEPT !.centrality = Levels(out.centrality)]
                           /\ UNCHANGED <<pc, err>>
              ELSE /\ order' = Tail(order)
                   /\ call' = call
                   /\ UNCHANGED <<pc, err>>
    /\ UNCHANGED <<G_in, agg, rng, wref, remove_count, ci, trial, results, ret, retPrev,
                   applied, snaps>>

\* The checkpoint of schedule entry k (attack.py 163-165), then the next entry
\* or the return of the DataFrame; k/n raises ZeroDivisionError when n = 0.
TargetedCheckpoint ==
    /\ pc = "targeted_loop"
    /\ ~(NeedsRemoval(Cardinality(removed), call.cum[ci]) /\ Len(order) > 0)
    /\ IF call.n = 0
       THEN /\ Raise("ZeroDivisionError")
            /\ UNCHANGED <<results, snaps, ci>>
       ELSE /\ results' = Append(results,
                    TargetedRow(metrics_on_graph(W, call.n), call.key, call.adaptive,
                                call.cum[ci], call.n))
            /\ snaps' = Append(snaps, W)
            /\ err' = err
            /\ IF ci < Len(call.cum)
               THEN /\ ci' = ci + 1
                    /\ pc' = pc
               ELSE /\ ci' = ci
                    /\ pc' = "done"
    /\ UNCHANGED <<G, G_in, agg, rng, Gc, wref, call, order, removed, remove_count, trial, ret,
                   retPrev, applied>>

\* ---------------------------------- sample_pairs, approx_efficiency

\* Pairs kept without the test `if u != v`.
UnorderedPairsWithSelf(S) == {p \in S \X S : p[1] <= p[2]}

\* The normalised pairs (u, v), u < v, that sample_pairs can put in its set.
UnorderedPairs(S) == {p \in S \X S : p[1] < p[2]}

\* The subsets of S with k elements.
RECURSIVE KSubsets(_, _)
KSubsets(S, k) ==
    IF k = 0 THEN {{}}
    ELSE UNION {{T \cup {x} : x \in S \ T} : T \in KSubsets(S, k - 1)}

\* sample_pairs(nodes, m, rng): the sets of m distinct pairs the loop
\* `while len(pairs) < m` can end with.  With fewer than m distinct pairs
\* available (and m > 0) the loop never ends: no outcome.
sample_pairs(nodes, m) ==
    IF m <= 0 THEN {{}} ELSE KSubsets(UnorderedPairs(nodes), m)

\* An average that counts the pairs without a path in its denominator.
approx_efficiency_over_all(g, pairs) ==
    LET joined == {p \in pairs : Dist(g, p[1], p[2]) > 0}
        s      == SumRat([p \in joined |-> Rat(1, Dist(g, p[1], p[2]))])
    IN  RDivInt(s, IF Cardinality(pairs) > 1 THEN Cardinality(pairs) ELSE 1)

\* approx_efficiency(G, m, seed) for the sampled pairs: the mean of 1/d over the
\* pairs joined by a path; a pair without a path (NetworkXNoPath) is skipped.
approx_efficiency(g, pairs) ==
    LET joined == {p \in pairs : Dist(g, p[1], p[2]) > 0}
        cnt    == Cardinality(joined)
        s      == SumRat([p \in joined |-> Rat(1, Dist(g, p[1], p[2]))])
    IN  RDivInt(s, IF cnt > 1 THEN cnt ELSE 1)

\* ----------------------------------------- nodes_order_by, removal_curve

CurveKeys ==
    {"degree", "eigenvector", "betweenness", "closeness", "bogus", "random", "given"}

\* nodes_order_by(G, key) (analysis_re.py 533-545) and, for "random",
\* nodes_order_random(G, seed): what the caller hands to removal_curve.
nodes_order_by(g, key) ==
    CASE key = "degree" -> {Ok(DegreeOrder(g), DegreeMap(g))}
      [] key = "eigenvector" ->
            IF Len(g.nodes) = 0
            THEN {Raised("NetworkXPointlessConcept")}
            ELSE {Ok(CentralityOrder(g, c), c) : c \in ScoreMaps(g)}
                 \cup {Raised("PowerIterationFailedConvergence")}
      [] key = "betweenness" -> {Ok(CentralityOrder(g, c), c) : c \in ScoreMaps(g)}
      [] key = "random" -> {Ok(perm, <<>>) : perm \in PermSeqs(NodeSet(g))}
      [] OTHER -> {Raised("ValueError")}

\* An identifier that no node of g has.
StaleId(g) == Len(g.nodes) + 1

\* removal_curve takes any list as nodes_order (analysis_re.py 555, 570): lists
\* a caller can hand over that are not a ranking of G's own nodes: the degree
\* order with an identifier that is not in the graph in front, and the degree
\* order with its first identifier listed twice.
GivenOrders(g) ==
    LET o == DegreeOrder(g)
    IN  {<<StaleId(g)>> \o o}
            \cup (IF o = <<>> THEN {} ELSE {<<Head(o), Head(o)>> \o Tail(o)})

\* The nodes_order argument of removal_curve for the caller's choice key.
CurveOrders(g, key) ==
    IF key = "given" THEN {Ok(o, <<>>) : o \in GivenOrders(g)}
    ELSE nodes_order_by(g, key)

\* The denominator of S: n0, the node count of H before any removal
\* (analysis_re.py 567, 588).
CurveDenominatorCurrent(h, n0) == Len(h.nodes)

CurveDenominator(h, n0) == n0

\* int(q * n0) for q >= 0
TargetRemove(q, n0) == (q.num * n0) \div q.den

\* The caller's first step, nodes_order = nodes_order_by(G, key) (analysis_re.py
\* 533-545), nodes_order_random(G) or a list of its own.  The dictionary ec / bc
\* is a local of nodes_order_by: it is known when the list is returned and not
\* afterwards.
CurveOrder(key) ==
    /\ pc = "idle"
    /\ key \in {"eigenvector", "betweenness", "random", "given"} =>
            Len(G.nodes) <= MaxOracleNodes
    /\ \E out \in CurveOrders(G, key) :
          /\ call' = [NoCall EXCEPT !.fn = "curve", !.key = key, !.order0 = out.order,
                                    !.centrality = Levels(out.centrality)]
          /\ order' = out.order
          /\ IF out.raised # "none"
             THEN Raise(out.raised)
             ELSE /\ pc' = "curve_order"
                  /\ err' = "none"
    /\ removed' = {}
    /\ remove_count' = 0
    /\ ci' = 1
    /\ trial' = 0
    /\ results' = <<>>
    /\ snaps' = <<>>
    /\ UNCHANGED <<G, G_in, agg, rng, Gc, wref, ret, retPrev, applied>>

\* removal_curve(G, nodes_order, qs, m_pairs) starts: H = G.copy(), n0, res = [],
\* remove_count = 0, order_iter (analysis_re.py 566-570).
StartCurve(qs, m_pairs) ==
    /\ pc = "curve_order"
    /\ call' = [call EXCEPT !.qs = qs, !.m_pairs = m_pairs, !.n = Len(G.nodes),
                            !.centrality = <<>>]
    /\ pc' = "curve_loop"
    /\ wref' = GraphCopy
    /\ Gc' = G
    /\ UNCHANGED <<G, G_in, agg, rng, order, removed, remove_count, ci, trial, results, err,
                   ret, retPrev, applied, snaps>>

\* A counter that goes up for every identifier taken from order_iter.
remove_count_per_entry(count, present) == count + 1

\* `if u in H: ... remove_count += 1` (analysis_re.py 579-581): the counter
\* after an identifier u was taken from order_iter.
remove_count_after(count, present) == IF present THEN count + 1 ELSE count

\* One pass of `while remove_count < target_remove` that gets a node from
\* order_iter (analysis_re.py 574-581).
CurveRemove ==
    /\ pc = "curve_loop"
    /\ NeedsRemoval(remove_count, TargetRemove(call.qs[ci], call.n))
    /\ Len(order) > 0
    /\ LET u == Head(order)
       IN  /\ order' = Tail(order)
           /\ remove_count' = remove_count_after(remove_count, HasNode(W, u))
           /\ IF HasNode(W, u)
              THEN RemoveFromWorking(u)
              ELSE UNCHANGED <<G, Gc>>
    /\ UNCHANGED <<G_in, agg, rng, wref, pc, call, removed, ci, trial, results, err, ret,
                   retPrev, applied, snaps>>

\* A loop over qs that returns after its first row.
CurveAdvanceReturnsEarly ==
    /\ ci' = ci
    /\ pc' = "done"

\* `for q in qs`: on to the next entry of qs, or the return after the last one.
CurveAdvance ==
    IF ci < Len(call.qs)
    THEN /\ ci' = ci + 1
         /\ pc' = pc
    ELSE /\ ci' = ci
         /\ pc' = "done"

\* The rest of the loop body for q = qs[ci] (analysis_re.py 583-597), reached
\* when the target is met or order_iter is exhausted (StopIteration: break).
\* approx_efficiency calls sample_pairs, which does not return when the giant
\* component has fewer than m_pairs distinct pairs.
CurveCheckpoint ==
    /\ pc = "curve_loop"
    /\ ~(NeedsRemoval(remove_count, TargetRemove(call.qs[ci], call.n)) /\ Len(order) > 0)
    /\ IF Len(W.nodes) = 0
       THEN /\ results' = Append(results,
                   [q |-> call.qs[ci], S |-> Zero, E |-> Zero, L |-> NaN])
            /\ snaps' = Append(snaps, W)
            /\ CurveAdvance
       ELSE LET gcc_nodes == MaxByLen(connected_components(W))
                Gsub      == CHOOSE sub \in Subgraph(W, gcc_nodes) : TRUE
                samples   == sample_pairs(gcc_nodes, call.m_pairs)
            IN  IF samples = {}
                THEN /\ pc' = "sample_pairs"
                     /\ UNCHANGED <<results, snaps, ci>>
                ELSE \E pairs \in samples :
                        /\ results' = Append(results,
                               [q |-> call.qs[ci],
                                S |-> Rat(Cardinality(gcc_nodes), CurveDenominator(W, call.n)),
                                E |-> approx_efficiency(Gsub, pairs),
                                L |-> average_shortest_path_length(Gsub)])
                        /\ snaps' = Append(snaps, W)
                        /\ CurveAdvance
    /\ UNCHANGED <<G, G_in, agg, rng, Gc, wref, call, order, removed, remove_count, trial, err,
                   ret, retPrev, applied>>

\* sample_pairs' `while len(pairs) < m`: every draw is a same-node pair or a
\* pair already in the set, and the loop goes round again.
SamplePairsSpin ==
    /\ pc = "sample_pairs"
    /\ UNCHANGED vars

\* ------------------------------------- country_knockout_impact_light

Countries(g) == {g.country[v] : v \in NodeSet(g)}

\* A sort that puts the smallest drop first.
SortedByDropAscending(rows) ==
    {[i \in 1..Len(rows) |-> rows[p[i]]] : p \in
        {p \in PermSeqs(1..Len(rows)) :
            \A i \in 1..(Len(rows) - 1) :
                RLeq(rows[p[i]].Drop_in_S_ratio, rows[p[i + 1]].Drop_in_S_ratio)}}

\* sort_values("Drop_in_S_ratio", ascending=False): the rows in an order of
\* non-increasing drop; the order among equal drops is not promised.
SortedByDrop(rows) ==
    {[i \in 1..Len(rows) |-> rows[p[i]]] : p \in
        {p \in PermSeqs(1..Len(rows)) :
            \A i \in 1..(Len(rows) - 1) :
                RLeq(rows[p[i + 1]].Drop_in_S_ratio, rows[p[i]].Drop_in_S_ratio)}}

\* base_n, gcc0_size, S0, results = [], all_countries (analysis_re.py 450-458);
\* max() of no components raises ValueError on a graph without nodes.
StartKnockout ==
    /\ pc = "idle"
    /\ IF Len(G.nodes) = 0
       THEN /\ Raise("ValueError")
            /\ call' = [NoCall EXCEPT !.fn = "knockout"]
            /\ order' = <<>>
       ELSE /\ call' = [NoCall EXCEPT !.fn = "knockout", !.n = Len(G.nodes),
                                      !.gcc0 = GiantSize(G)]
            /\ order' = SortedAsc(Countries(G))
            /\ pc' = "knockout_loop"
            /\ err' = "none"
    /\ Gc' = EmptyGraph
    /\ wref' = "copy"
    /\ removed' = {}
    /\ remove_count' = 0
    /\ ci' = 1
    /\ trial' = 0
    /\ results' = <<>>
    /\ snaps' = <<>>
    /\ UNCHANGED <<G, G_in, agg, rng, ret, retPrev, applied>>

\* The loop body for country c (analysis_re.py 460-483); after the last
\* country the rows are sorted and returned (485-490).
KnockoutCountry ==
    /\ pc = "knockout_loop"
    /\ Len(order) > 0
    /\ LET c            == Head(order)
           remove_nodes == {v \in NodeSet(G) : G.country[v] = c}
           H_tmp        == RemoveNodesFrom(G, remove_nodes)
           after        == IF Len(H_tmp.nodes) = 0 THEN 0 ELSE GiantSize(H_tmp)
           S0           == Rat(call.gcc0, call.n)
           S_after      == IF Len(H_tmp.nodes) = 0 THEN Zero ELSE Rat(after, call.n)
           row          == [Country |-> c,
                            RemovedAirports |-> Cardinality(remove_nodes),
                            GCC_nodes_after |-> after,
                            S_ratio_after |-> S_after,
                            Drop_in_S_ratio |-> Rat(call.gcc0 - after, call.n)]
       IN  /\ wref' = GraphCopy
           /\ IF GraphCopy = "copy"
              THEN /\ Gc' = H_tmp
                   /\ G' = G
              ELSE /\ G' = H_tmp
                   /\ Gc' = Gc
           /\ order' = Tail(order)
           /\ snaps' = Append(snaps, H_tmp)
           /\ IF Len(order) > 1
              THEN /\ results' = Append(results, row)
                   /\ pc' = pc
              ELSE /\ results' \in SortedByDrop(Append(results, row))
                   /\ pc' = "done"
    /\ UNCHANGED <<G_in, agg, rng, call, removed, remove_count, ci, trial, err, ret, retPrev,
                   applied>>

\* ----------------------------------------------- get_giant_component

\* G = get_giant_component(G_full) (analysis_re.py main, 633); analysis.py and
\* clustering scripts extract the largest component again from the graph that
\* was saved, so the extraction is also applied to its own result.
GiantCall ==
    /\ \/ pc = "idle"
       \/ pc = "done" /\ call.fn = "giant" /\ applied < 2
    /\ LET arg == IF pc = "idle" THEN G ELSE ret
       IN  \E out \in get_giant_component(arg) :
              IF out.raised
              THEN /\ Raise("ValueError")
                   /\ UNCHANGED <<ret, retPrev, applied>>
              ELSE /\ ret' = out.value
                   /\ retPrev' = arg
                   /\ applied' = applied + 1
                   /\ pc' = "done"
                   /\ err' = "none"
    /\ call' = [NoCall EXCEPT !.fn = "giant", !.n = Len(G.nodes)]
    /\ UNCHANGED <<G, G_in, agg, rng, Gc, wref, order, removed, remove_count, ci, trial, results,
                   snaps>>

\* ------------------------------------------------------------ next call

\* The call has returned or raised; the caller goes on to its next call with
\* the same graph object.
Reset ==
    /\ pc \in {"done", "error"}
    /\ pc' = "idle"
    /\ call' = NoCall
    /\ ResetLocals
    /\ ret' = EmptyGraph
    /\ retPrev' = EmptyGraph
    /\ applied' = 0
    /\ UNCHANGED <<G, G_in, rng>>

Next ==
    \/ \E trials \in 1..MaxTrials, steps \in 1..MaxSteps, frac \in MaxFracs :
          StartRandom(trials, steps, frac)
    \/ RandomBeginTrial
    \/ RandomRemove
    \/ RandomCheckpoint
    \/ AggregateRandom
    \/ \E key \in Keys, adaptive \in BOOLEAN, steps \in 1..MaxSteps, frac \in MaxFracs :
          StartTargeted(key, adaptive, steps, frac)
    \/ TargetedRemove
    \/ TargetedCheckpoint
    \/ \E key \in CurveKeys : CurveOrder(key)
    \/ \E qs \in QsChoices, m_pairs \in 0..MaxPairs : StartCurve(qs, m_pairs)
    \/ CurveRemove
    \/ CurveCheckpoint
    \/ SamplePairsSpin
    \/ StartKnockout
    \/ KnockoutCountry
    \/ GiantCall
    \/ Reset

Spec == Init /\ [][Next]_vars

\* ----------------------------- removal_sequence_by_fraction on its own

\* max_frac between 0 and 1 in eighths (exact as floats).
ScheduleFracs == {Rat(i, 8) : i \in 0..8}

\* A caller about to compute cum_removes for a list of n nodes.
InitSchedule ==
    /\ G = EmptyGraph
    /\ G_in = G
    /\ Gc = EmptyGraph
    /\ wref = "copy"
    /\ pc = "schedule_call"
    /\ \E n \in 0..MaxListLen, steps \in 1..MaxScheduleSteps, frac \in ScheduleFracs :
          call = [fn |-> "removal_sequence_by_fraction", n |-> n, steps |-> steps,
                  max_frac |-> frac, cum |-> <<>>]
    /\ order = <<>>
    /\ removed = {}
    /\ remove_count = 0
    /\ ci = 1
    /\ trial = 0
    /\ results = <<>>
    /\ err = "none"
    /\ ret = EmptyGraph
    /\ retPrev = EmptyGraph
    /\ applied = 0
    /\ snaps = <<>>
    /\ rng = 0
    /\ agg = <<>>

\* cum_removes = removal_sequence_by_fraction(nodes, steps, max_frac)
\* (attack.py 78, 103).
ComputeSchedule ==
    /\ pc = "schedule_call"
    /\ call' = [call EXCEPT
                    !.cum = removal_sequence_by_fraction(call.n, call.steps, call.max_frac)]
    /\ pc' = "schedule_done"
    /\ UNCHANGED <<G, G_in, Gc, wref, order, removed, remove_count, ci, trial, results,
                   err, ret, retPrev, applied, snaps, rng, agg>>

NextSchedule == ComputeSchedule

SpecSchedule == InitSchedule /\ [][NextSchedule]_vars

\* -------------------------------------------------- build_full_graph

\* The AirportID of an airport row without one (pd.isna(aid)), and the
\* SrcAirportID / DstAirportID of a route row that has "\N" there.
MissingId == 0

\* Airport rows: an id (1, 2 or none) and a Latitude that is a number or, after
\* pd.to_numeric(errors="coerce"), NaN.
AirportRows ==
    {[id |-> i, lat |-> l] : i \in {1, 2}, l \in {"number", "nan"}}
        \cup {[id |-> MissingId, lat |-> "number"]}

\* Route rows: airports 1 and 2, an id 3 that no airport row has, and a row
\* with "\N" as its source.
RouteRows ==
    {[src |-> a, dst |-> b] : a, b \in {1, 2, 3}} \cup {[src |-> MissingId, dst |-> 1]}

SeqsUpTo(S, n) == UNION {[1..len -> S] : len \in 0..n}

\* G_full.add_node(aid, ..., lat=...): a new node at the end of the enumeration
\* order, or new attributes for a node that is already there.
AddNode(g, aid, lat) ==
    [nodes   |-> IF HasNode(g, aid) THEN g.nodes ELSE Append(g.nodes, aid),
     edges   |-> g.edges,
     country |-> g.country,
     lat     |-> [v \in NodeSet(g) \cup {aid} |-> IF v = aid THEN lat ELSE g.lat[v]]]

\* A test that lets a route from an airport to itself through.
RouteAcceptedWithSelfLoops(g, src, dst) ==
    /\ src # MissingId /\ dst # MissingId
    /\ HasNode(g, src) /\ HasNode(g, dst)

\* The tests a route row passes before G_full.add_edge(src, dst)
\* (analysis_re.py 135-147).
RouteAccepted(g, src, dst) ==
    /\ src # MissingId /\ dst # MissingId
    /\ src # dst
    /\ HasNode(g, src) /\ HasNode(g, dst)

\* The caller is about to build the graph from its two tables.
InitBuild ==
    /\ G = [nodes |-> <<>>, edges |-> {}, country |-> DefaultCountry(3), lat |-> <<>>]
    /\ G_in = G
    /\ Gc = EmptyGraph
    /\ wref = "caller"
    /\ pc = "airports_loop"
    /\ \E airports \in SeqsUpTo(AirportRows, MaxAirportRows),
          routes \in SeqsUpTo(RouteRows, MaxRouteRows) :
          call = [fn |-> "build_full_graph", airports |-> airports, routes |-> routes]
    /\ order = <<>>
    /\ removed = {}
    /\ remove_count = 0
    /\ ci = 1
    /\ trial = 0
    /\ results = <<>>
    /\ err = "none"
    /\ ret = EmptyGraph
    /\ retPrev = EmptyGraph
    /\ applied = 0
    /\ snaps = <<>>
    /\ rng = 0
    /\ agg = <<>>

BuildUnchanged ==
    UNCHANGED <<G_in, Gc, wref, call, order, remove_count, trial, results, err, ret,
                retPrev, applied, snaps, rng, agg>>

\* One pass of `for _, row in airports_df.iterrows()` (analysis_re.py 113-128).
AddAirportRow ==
    /\ pc = "airports_loop"
    /\ ci <= Len(call.airports)
    /\ LET row == call.airports[ci]
       IN  G' = IF row.id = MissingId THEN G ELSE AddNode(G, row.id, row.lat)
    /\ ci' = ci + 1
    /\ UNCHANGED <<pc, removed>>
    /\ BuildUnchanged

\* The airport rows are used up: on to the routes.
AirportsDone ==
    /\ pc = "airports_loop"
    /\ ci > Len(call.airports)
    /\ pc' = "routes_loop"
    /\ ci' = 1
    /\ UNCHANGED <<G, removed>>
    /\ BuildUnchanged

\* One pass of `for _, row in routes_df.iterrows()` (analysis_re.py 131-147).
AddRouteRow ==
    /\ pc = "routes_loop"
    /\ ci <= Len(call.routes)
    /\ LET row == call.routes[ci]
       IN  G' = IF RouteAccepted(G, row.src, row.dst)
                THEN [G EXCEPT !.edges = @ \cup {{row.src, row.dst}}]
                ELSE G
    /\ ci' = ci + 1
    /\ UNCHANGED <<pc, removed>>
    /\ BuildUnchanged

\* return G_full (analysis_re.py 149).
RoutesDone ==
    /\ pc = "routes_loop"
    /\ ci > Len(call.routes)
    /\ pc' = "built"
    /\ UNCHANGED <<G, ci, removed>>
    /\ BuildUnchanged

\* A simulation starts on the graph that was built: G_work = G.copy()
\* (attack.py 107).
CopyBuilt ==
    /\ pc = "built"
    /\ pc' = "working"
    /\ wref' = GraphCopy
    /\ Gc' = G
    /\ UNCHANGED <<G, G_in, ci, removed, call, order, remove_count, trial, results, err,
                   ret, retPrev, applied, snaps, rng, agg>>

\* The simulation's G_work.remove_node(target) (attack.py 139-141): the node
\* leaves the working copy, the graph that was built keeps it.
RemoveBuiltNode ==
    /\ pc = "working"
    /\ \E target \in NodeSet(W) :
          /\ RemoveFromWorking(target)
          /\ removed' = removed \cup {target}
    /\ UNCHANGED <<G_in, wref, pc, ci, call, order, remove_count, trial, results, err,
                   ret, retPrev, applied, snaps, rng, agg>>

NextBuild ==
    \/ AddAirportRow
    \/ AirportsDone
    \/ AddRouteRow
    \/ RoutesDone
    \/ CopyBuilt
    \/ RemoveBuiltNode

SpecBuild == InitBuild /\ [][NextBuild]_vars

\* ------------------------ approx_efficiency and sample_pairs on their own

\* A caller about to compute approx_efficiency(G, m, seed) of a graph.
InitSampling ==
    /\ G \in InputGraphs
    /\ G_in = G
    /\ Gc = EmptyGraph
    /\ wref = "copy"
    /\ pc = "efficiency_call"
    /\ \E m \in 0..MaxSamplePairs :
          call = [fn |-> "approx_efficiency", m |-> m, pairs |-> {}, value |-> NaN]
    /\ order = <<>>
    /\ removed = {}
    /\ remove_count = 0
    /\ ci = 1
    /\ trial = 0
    /\ results = <<>>
    /\ err = "none"
    /\ ret = EmptyGraph
    /\ retPrev = EmptyGraph
    /\ applied = 0
    /\ snaps = <<>>
    /\ rng = 0
    /\ agg = <<>>

\* pairs = sample_pairs(G.nodes(), m, rng) (analysis_re.py 516-517, 494-507):
\* the loop ends with some set of m distinct pairs; rng.choice raises ValueError
\* on an empty node list; with fewer than m distinct pairs among the nodes the
\* loop does not end.
SamplePairsCall ==
    /\ pc = "efficiency_call"
    /\ IF call.m > 0 /\ Len(G.nodes) = 0
       THEN /\ Raise("ValueError")
            /\ call' = call
       ELSE LET samples == sample_pairs(NodeSet(G), call.m)
            IN  IF samples = {}
                THEN /\ pc' = "sample_pairs"
                     /\ UNCHANGED <<call, err>>
                ELSE /\ \E pairs \in samples : call' = [call EXCEPT !.pairs = pairs]
                     /\ pc' = "sampled"
                     /\ err' = err
    /\ UNCHANGED <<G, G_in, Gc, wref, order, removed, remove_count, ci, trial, results,
                   ret, retPrev, applied, snaps, rng, agg>>

\* The loop over the pairs and `return s / max(cnt, 1)` (analysis_re.py 519-530).
EfficiencyReturn ==
    /\ pc = "sampled"
    /\ call' = [call EXCEPT !.value = approx_efficiency(G, call.pairs)]
    /\ pc' = "done"
    /\ UNCHANGED <<G, G_in, Gc, wref, order, removed, remove_count, ci, trial, results,
                   err, ret, retPrev, applied, snaps, rng, agg>>

NextSampling ==
    \/ SamplePairsCall
    \/ EfficiencyReturn
    \/ SamplePairsSpin

SpecSampling == InitSampling /\ [][NextSampling]_vars

\* ------------------------------------------------------------ properties

\* The size of a largest connected component of g, stated from distances alone.
LargestComponentSize(g) ==
    IF NodeSet(g) = {} THEN 0
    ELSE LET size(v) == Cardinality({u \in NodeSet(g) : Dist(g, v, u) >= 0})
             sizes   == {size(v) : v \in NodeSet(g)}
         IN  CHOOSE m \in sizes : \A k \in sizes : k <= m

\* A non-empty graph is connected: every node is reachable from the first.
IsConnected(g) == \A v \in NodeSet(g) : Dist(g, g.nodes[1], v) >= 0

\* The call in progress is one of attack.py's two simulations.
Attack == call.fn \in {"random", "targeted"}

\* Rows i < j of results belong to the same run (the same trial).
SameRun(i, j) ==
    call.fn = "random" => results[i].trial = results[j].trial

\* The metrics columns of a row of attack.py's DataFrame.
RowMetrics(r) ==
    [n_nodes |-> r.n_nodes, n_edges |-> r.n_edges, lcc_size |-> r.lcc_size,
     lcc_fraction |-> r.lcc_fraction, avg_path_length |-> r.avg_path_length,
     avg_clustering |-> r.avg_clustering, global_efficiency |-> r.global_efficiency,
     n_components |-> r.n_components]

\* C1: at every point of every sequence of runs of simulate_random_attacks,
\* simulate_targeted_attack, removal_curve and country_knockout_impact_light,
\* with any strategy, schedule and number of trials, the caller's graph has the
\* node set and the edge set it had before the first run.
C1_InputGraphUnchanged ==
    /\ NodeSet(G) = NodeSet(G_in)
    /\ G.nodes = G_in.nodes
    /\ G.edges = G_in.edges

\* A run has removed nodes from its working graph, and has returned.
C1_Witness ==
    /\ pc = "done"
    /\ call.fn \in {"random", "targeted", "curve", "knockout"}
    /\ Len(W.nodes) < Len(G_in.nodes)
    /\ Cardinality(W.edges) < Cardinality(G_in.edges)

\* C2 as stated: along a single run on a connected input graph the recorded
\* giant-component fraction (lcc_fraction of attack.py, S of removal_curve) is
\* non-increasing from one checkpoint to the next.
C2_FractionNonIncreasing ==
    (Len(G_in.nodes) > 0 /\ IsConnected(G_in)) =>
        /\ Attack =>
              \A i, j \in 1..Len(results) :
                  (i < j /\ SameRun(i, j)) =>
                      RLeq(results[j].lcc_fraction, results[i].lcc_fraction)
        /\ call.fn = "curve" =>
              \A i, j \in 1..Len(results) :
                  i < j => RLeq(results[j].S, results[i].S)

\* C2 amended: along a single run the recorded giant-component size (lcc_size
\* of attack.py) is non-increasing, and so is S of removal_curve, the giant
\* component as a fraction of the original node count.
C2_GiantSizeNonIncreasing ==
    /\ Attack =>
          \A i, j \in 1..Len(results) :
              (i < j /\ SameRun(i, j)) => results[j].lcc_size <= results[i].lcc_size
    /\ call.fn = "curve" =>
          \A i, j \in 1..Len(results) :
              i < j => RLeq(results[j].S, results[i].S)

\* A finished run whose lcc_fraction went up between two checkpoints while the
\* giant-component size did not.
C2_Witness ==
    /\ pc = "done"
    /\ Attack
    /\ \E i, j \in 1..Len(results) :
          /\ i < j
          /\ SameRun(i, j)
          /\ ~RLeq(results[j].lcc_fraction, results[i].lcc_fraction)
          /\ results[j].lcc_size <= results[i].lcc_size

\* C3 as stated: the fraction reported at each checkpoint is the node count of
\* the giant component of the reduced graph divided by the node count of the
\* input graph.
C3_FractionOfOriginalCount ==
    call.n > 0 =>
        /\ Attack =>
              \A i \in 1..Len(results) :
                  results[i].lcc_fraction = Rat(LargestComponentSize(snaps[i]), call.n)
        /\ call.fn = "curve" =>
              \A i \in 1..Len(results) :
                  results[i].S = Rat(LargestComponentSize(snaps[i]), call.n)

\* C3 amended: lcc_fraction of attack.py is the node count of the giant
\* component of the reduced graph divided by the node count of the reduced
\* graph; S of removal_curve is that count divided by the node count of the
\* input graph; both are 0 when the reduced graph has no nodes.
C3_FractionDenominators ==
    /\ Attack =>
          \A i \in 1..Len(results) :
              results[i].lcc_fraction =
                  IF Len(snaps[i].nodes) = 0 THEN Zero
                  ELSE Rat(LargestComponentSize(snaps[i]), Len(snaps[i].nodes))
    /\ call.fn = "curve" =>
          \A i \in 1..Len(results) :
              results[i].S =
                  IF Len(snaps[i].nodes) = 0 THEN Zero
                  ELSE Rat(LargestComponentSize(snaps[i]), call.n)

\* A checkpoint of attack.py on a reduced, non-empty graph where the two
\* denominators give different fractions.
C3_Witness ==
    /\ Attack
    /\ \E i \in 1..Len(results) :
          /\ Len(snaps[i].nodes) > 0
          /\ Len(snaps[i].nodes) < call.n
          /\ results[i].lcc_fraction # Rat(LargestComponentSize(snaps[i]), call.n)

\* C4: simulate_random_attacks and simulate_targeted_attack with schedule [0]
\* on a non-empty graph return exactly one checkpoint per run (per trial), on
\* the graph as it was handed over, with the metrics of that graph.
C4_ScheduleZeroIsBaseline ==
    (Attack /\ pc = "done" /\ call.cum = <<0>> /\ Len(G_in.nodes) > 0) =>
        /\ Len(results) = (IF call.fn = "random" THEN call.trials ELSE 1)
        /\ call.fn = "random" =>
              \A i, j \in 1..Len(results) :
                  (i # j) => results[i].trial # results[j].trial
        /\ \A i \in 1..Len(results) :
              /\ snaps[i] = G_in
              /\ results[i].removed_count = 0
              /\ RowMetrics(results[i]) = metrics_on_graph(G_in, Len(G_in.nodes))

\* A run with schedule [0] on a graph with edges has returned.
C4_Witness ==
    /\ Attack
    /\ pc = "done"
    /\ call.cum = <<0>>
    /\ Len(results) = 1
    /\ G_in.edges # {}

\* C5 as stated: once every node of a non-empty input graph has been removed,
\* the checkpoint taken on the empty working graph reports giant-component
\* size 0, fraction 0.0, efficiency 0.0 and an undefined (NaN) path length, and
\* the run has raised no error.
C5_DepletionReportsZeros ==
    (Len(G_in.nodes) > 0 /\ call.fn \in {"random", "targeted", "curve"}) =>
        /\ \A i \in 1..Len(results) :
              Len(snaps[i].nodes) = 0 =>
                  IF Attack
                  THEN /\ results[i].lcc_size = 0
                       /\ results[i].lcc_fraction = Zero
                       /\ results[i].global_efficiency = Zero
                       /\ results[i].avg_path_length = NaN
                  ELSE /\ results[i].S = Zero
                       /\ results[i].E = Zero
                       /\ results[i].L = NaN
        /\ (wref = "copy" /\ Len(Gc.nodes) = 0 /\ (removed # {} \/ remove_count > 0)) =>
              pc # "error"

\* The nodes removed from the working graph by the time of row i.
RemovedAt(i) == NodeSet(G_in) \ NodeSet(snaps[i])

\* The first node of degree 2 in the enumeration order of a path graph.
FirstInnerNode(g) ==
    g.nodes[CHOOSE k \in 1..Len(g.nodes) :
                /\ Degree(g, g.nodes[k]) = 2
                /\ \A j \in 1..(k - 1) : Degree(g, g.nodes[j]) # 2]

\* C6: on the path A-B-C-D, degree-targeted removal of one node removes an
\* inner node (B or C), namely the one that comes first in the graph's
\* enumeration order, and the checkpoint taken then reports a giant component
\* of 2 nodes (lcc_size 2; S = 2/4 in removal_curve).
C6_PathDegreeTargeted ==
    (G_in \in PathGraphs /\ call.fn \in {"targeted", "curve"} /\ call.key = "degree") =>
        \A i \in 1..Len(results) :
            Cardinality(RemovedAt(i)) = 1 =>
                /\ Degree(G_in, CHOOSE v \in RemovedAt(i) : TRUE) = 2
                /\ RemovedAt(i) = {FirstInnerNode(G_in)}
                /\ LargestComponentSize(snaps[i]) = 2
                /\ IF call.fn = "targeted"
                   THEN results[i].lcc_size = 2
                   ELSE results[i].S = Rat(2, 4)

\* A degree-targeted run on a path graph has taken the checkpoint after one
\* removal, and has returned.
C6_Witness ==
    /\ G_in \in PathGraphs
    /\ call.fn = "targeted"
    /\ call.key = "degree"
    /\ pc = "done"
    /\ \E i \in 1..Len(results) :
          /\ Cardinality(RemovedAt(i)) = 1
          /\ results[i].removed_count = 1

\* The hub of a star graph.
Hub(g) == CHOOSE h \in NodeSet(g) : Degree(g, h) = Len(g.nodes) - 1

\* C7 as stated: on the star with hub H and 5 leaves, degree-targeted removal of
\* one node removes H, and the checkpoint reports giant-component size 1 and
\* giant-component fraction 1/5.
C7_StarFractionOneFifth ==
    (G_in \in StarGraphs /\ call.fn \in {"targeted", "curve"} /\ call.key = "degree") =>
        \A i \in 1..Len(results) :
            Cardinality(RemovedAt(i)) = 1 =>
                /\ RemovedAt(i) = {Hub(G_in)}
                /\ LargestComponentSize(snaps[i]) = 1
                /\ IF call.fn = "targeted"
                   THEN /\ results[i].lcc_size = 1
                        /\ results[i].lcc_fraction = Rat(1, 5)
                   ELSE results[i].S = Rat(1, 5)

\* C7 amended: on that star, degree-targeted removal of one node removes H;
\* simulate_targeted_attack reports giant-component size 1 and fraction 1/5 (of
\* the 5 remaining nodes), and a row of removal_curve reports S = 1/6 (of the 6
\* original nodes).
C7_StarHubRemoval ==
    (G_in \in StarGraphs /\ call.fn \in {"targeted", "curve"} /\ call.key = "degree") =>
        \A i \in 1..Len(results) :
            Cardinality(RemovedAt(i)) = 1 =>
                /\ RemovedAt(i) = {Hub(G_in)}
                /\ LargestComponentSize(snaps[i]) = 1
                /\ IF call.fn = "targeted"
                   THEN /\ results[i].lcc_size = 1
                        /\ results[i].lcc_fraction = Rat(1, 5)
                   ELSE results[i].S = Rat(1, 6)

\* A degree-targeted simulate_targeted_attack on a star has taken the
\* checkpoint after one removal, and has returned.
C7_Witness ==
    /\ G_in \in StarGraphs
    /\ call.fn = "targeted"
    /\ call.key = "degree"
    /\ pc = "done"
    /\ \E i \in 1..Len(results) :
          /\ Cardinality(RemovedAt(i)) = 1
          /\ results[i].removed_count = 1
          /\ results[i].n_components = 5

\* C is one connected component of g: its nodes are joined pairwise by paths
\* and no edge of g leaves it.
IsComponent(g, C) ==
    /\ C # {}
    /\ C \subseteq NodeSet(g)
    /\ \A u, v \in C : Dist(g, u, v) >= 0
    /\ \A e \in g.edges : (e \cap C # {}) => e \subseteq C

\* C8: for a non-empty graph, get_giant_component returns the induced subgraph
\* on one connected component of its argument; the result is connected and has
\* at least as many nodes as every connected component of the argument.
C8_GiantIsLargestComponent ==
    (call.fn = "giant" /\ applied >= 1) =>
        /\ IsComponent(retPrev, NodeSet(ret))
        /\ Len(ret.nodes) = Cardinality(NodeSet(ret))
        /\ ret.edges = {e \in retPrev.edges : e \subseteq NodeSet(ret)}
        /\ \A u, v \in NodeSet(ret) : Dist(ret, u, v) >= 0
        /\ \A v \in NodeSet(retPrev) :
              Cardinality({u \in NodeSet(retPrev) : Dist(retPrev, v, u) >= 0})
                  <= Len(ret.nodes)

\* The extraction has returned the giant component of a disconnected graph
\* whose first component in enumeration order is not the largest.
C8_Witness ==
    /\ call.fn = "giant"
    /\ applied = 1
    /\ Len(ret.nodes) < Len(retPrev.nodes)
    /\ ret.nodes[1] # retPrev.nodes[1]
    /\ ret.edges # {}

\* C9: get_giant_component applied to its own result returns a graph with the
\* same node set and the same edge set.
C9_ExtractionIdempotent ==
    (call.fn = "giant" /\ applied = 2) =>
        /\ NodeSet(ret) = NodeSet(retPrev)
        /\ ret.edges = retPrev.edges

\* The extraction has been applied twice, the first time to a graph that is
\* larger than its giant component.
C9_Witness ==
    /\ call.fn = "giant"
    /\ applied = 2
    /\ Len(ret.nodes) < Len(G_in.nodes)
    /\ ret.edges # {}

\* C10: giant-component extraction on a graph without nodes (get_giant_component,
\* and the baseline extraction of country_knockout_impact_light) ends in an
\* error raised to the caller (Python's ValueError), and nothing is returned.
C10_EmptyGraphFails ==
    (Len(G_in.nodes) = 0 /\ call.fn \in {"giant", "knockout"}) =>
        /\ pc = "error"
        /\ err = "ValueError"
        /\ applied = 0
        /\ ret = EmptyGraph
        /\ results = <<>>

\* get_giant_component has been called on the graph without nodes.
C10_Witness ==
    /\ Len(G_in.nodes) = 0
    /\ call.fn = "giant"
    /\ pc = "error"


\* seq lists every element of S exactly once.
IsPermutationOf(seq, S) ==
    /\ Len(seq) = Cardinality(S)
    /\ Range(seq) = S

\* C11: the random removal order is a permutation of exactly |V(G)| distinct
\* node identifiers of G, and it is reproducible: a call with the same graph
\* and seed yields the order the first such call yielded, trial by trial (the
\* first call after random.seed(SEED) makes shuffles 1, 2, ... of the stream).
C11_RandomOrderReproducible ==
    /\ (call.fn = "random" /\ pc = "random_loop") =>
            /\ IsPermutationOf(order, NodeSet(G_in))
            /\ order = Shuffled(G_in.nodes, trial + 1)
    /\ (call.fn = "curve" /\ call.key = "random" /\ pc = "curve_loop"
            /\ remove_count = 0 /\ ci = 1) =>
            IsPermutationOf(order, NodeSet(G_in))

\* The strategy identifiers simulate_targeted_attack ranks by, and the ones the
\* caller of removal_curve can get an order for ("given": a list of the
\* caller's own, which names no strategy).
TargetedKeys == {"degree", "betweenness", "closeness", "eigenvector"}

OrderKeys == {"degree", "eigenvector", "betweenness", "random", "given"}

\* C12: a call with an unrecognised strategy identifier has failed with the
\* unknown-strategy error (ValueError) as soon as it exists: it has removed no
\* node from any graph and has appended no checkpoint.
C12_UnknownStrategyFails ==
    /\ (call.fn = "targeted" /\ call.key \notin TargetedKeys) =>
            /\ pc = "error" /\ err = "ValueError"
            /\ results = <<>> /\ snaps = <<>>
            /\ removed = {}
            /\ Gc = G_in /\ G = G_in
    /\ (call.fn = "curve" /\ call.key \notin OrderKeys) =>
            /\ pc = "error" /\ err = "ValueError"
            /\ results = <<>> /\ snaps = <<>>
            /\ remove_count = 0
            /\ G = G_in

C12_Witness ==
    /\ call.fn = "targeted" /\ call.key = "bogus"
    /\ pc = "error"
    /\ G_in.edges # {}

\* C13: a targeted simulation ranked by eigenvector centrality is never ended
\* by the failure of the power iteration to converge, neither at the initial
\* ordering nor at a recomputation inside the adaptive loop: the run goes on
\* with a substituted ranking to its remaining checkpoints.
C13_NonConvergenceDoesNotAbort ==
    (call.fn = "targeted" /\ call.key = "eigenvector") =>
        ~(pc = "error" /\ err = "PowerIterationFailedConvergence")

\* The rows of the random run taken at removed fraction f.
TrialRowsAt(f) == SelectSeq(results, LAMBDA r : r.removed_frac = f)

\* C14: in the aggregated table, a metric that has the same value c (a number)
\* in every trial at a removed fraction has mean c and standard deviation 0 at
\* that fraction, whatever the number of trials (one included).
C14_ConstantMetricAggregates ==
    \A j \in DOMAIN agg : \A name \in AggColumns :
        LET vals == GroupColumn(results, agg[j].removed_frac, name)
        IN  (~vals[1].nan /\ \A i \in DOMAIN vals : vals[i] = vals[1]) =>
                /\ agg[j].mean[name] = vals[1]
                /\ agg[j].std[name] = Zero

\* C15: what a random trial produces does not depend on the runs and trials
\* executed before it: its permutation is the one the same trial gets when it
\* is the first to run after the seed was set, however many shuffles other
\* trials and earlier calls have made.
C15_TrialIndependentOfHistory ==
    (call.fn = "random" /\ pc = "random_loop") =>
        \A before \in 0..rng : order = Shuffled(G_in.nodes, before + 1)

\* v has the highest degree of the nodes of g.
HasMaxDegree(g, v) == \A u \in NodeSet(g) : Degree(g, u) <= Degree(g, v)

\* C16: in adaptive mode every removal step takes a node that has the maximum
\* of the chosen centrality in the working graph as it is when the step
\* begins (stated for the degree, the centrality the model computes), and the
\* order the step leaves behind is the ranking of the graph it leaves behind.
C16_AdaptiveRemovesCurrentMaximum ==
    [][(call.fn = "targeted" /\ call.adaptive /\ call.key = "degree"
            /\ pc = "targeted_loop" /\ removed' # removed) =>
        /\ \A v \in removed' \ removed : HasNode(W, v) /\ HasMaxDegree(W, v)
        /\ order' = DegreeOrder(W')]_vars

C16_Witness ==
    /\ call.fn = "targeted" /\ call.adaptive /\ call.key = "degree"
    /\ pc = "done"
    /\ G_in = CycleGraph
    /\ removed = {1, 3}

\* The position of node v in the enumeration of g.
Pos(g, v) == CHOOSE i \in 1..Len(g.nodes) : g.nodes[i] = v

\* o lists every node of g exactly once, in descending score c, nodes of equal
\* score in the enumeration order of g.
IsStableDescending(o, g, c) ==
    /\ IsPermutationOf(o, NodeSet(g))
    /\ DOMAIN c = NodeSet(g)
    /\ \A i, j \in 1..Len(o) :
          i < j =>
              \/ c[o[i]] > c[o[j]]
              \/ c[o[i]] = c[o[j]] /\ Pos(g, o[i]) < Pos(g, o[j])

\* The number of entries of the call's ordering taken so far.
Consumed == Len(call.order0) - Len(order)

\* The nodes of the original graph among the entries taken so far.
ConsumedNodes == Range(SubSeq(call.order0, 1, Consumed)) \cap NodeSet(G_in)

\* C17: in static mode the ordering is the one computed on the original graph
\* and is consumed in order, for every strategy.  What is left of the order is
\* the rest of the list the run started with; the nodes removed so far are the
\* nodes of the original graph among the entries taken, so an entry that is
\* not (or no longer) in the graph removes nothing; the count of removals is
\* the number of nodes removed, so a skipped entry is not counted.  The list a
\* strategy computes is the stable descending ordering of the original graph by
\* the strategy's dictionary (simulate_targeted_attack keeps the dictionary,
\* nodes_order_by has it when it returns the list), so no node still in the
\* graph has a higher centrality in the original graph than a removed one.
C17_StaticConsumesInitialOrder ==
    /\ (call.fn = "targeted" /\ ~call.adaptive /\ call.key \in TargetedKeys
            /\ pc \in {"targeted_loop", "done"}) =>
            /\ IsStableDescending(call.order0, G_in, call.centrality)
            /\ Consumed \in 0..Len(call.order0)
            /\ order = SubSeq(call.order0, Consumed + 1, Len(call.order0))
            /\ removed = ConsumedNodes
            /\ Cardinality(removed) = Consumed
            /\ NodeSet(W) = NodeSet(G_in) \ removed
            /\ \A v \in removed, u \in NodeSet(W) :
                    call.centrality[u] <= call.centrality[v]
            /\ call.key = "degree" =>
                    /\ call.order0 = DegreeOrder(G_in)
                    /\ \A v \in removed, u \in NodeSet(W) :
                            Degree(G_in, u) <= Degree(G_in, v)
    /\ (call.fn = "curve" /\ call.key \in {"degree", "eigenvector", "betweenness"}
            /\ pc = "curve_order") =>
            /\ IsStableDescending(call.order0, G_in, call.centrality)
            /\ order = call.order0
    /\ (call.fn = "curve" /\ pc \in {"curve_loop", "sample_pairs", "done"}) =>
        LET gone == NodeSet(G_in) \ NodeSet(W)
        IN  /\ Consumed \in 0..Len(call.order0)
            /\ order = SubSeq(call.order0, Consumed + 1, Len(call.order0))
            /\ gone = ConsumedNodes
            /\ remove_count = Cardinality(gone)
            /\ remove_count <= Consumed
            /\ call.key = "degree" =>
                    /\ call.order0 = DegreeOrder(G_in)
                    /\ remove_count = Consumed
                    /\ \A v \in gone, u \in NodeSet(W) : Degree(G_in, u) <= Degree(G_in, v)

\* A finished removal_curve run over a list whose first identifier is listed
\* twice: three entries were taken, the second was skipped, two nodes removed.
C17_Witness ==
    /\ call.fn = "curve" /\ call.key = "given"
    /\ pc = "done"
    /\ Len(call.order0) >= 3
    /\ call.order0[1] = call.order0[2]
    /\ Consumed = 3
    /\ remove_count = 2

Min(a, b) == IF a < b THEN a ELSE b

\* C18: the working graph recorded at a checkpoint with target count k has
\* exactly |V| - min(k, |V|) nodes (min(k, |V|) nodes have been removed), for
\* the three removal loops; and a target above the node count exhausts the
\* order without an error (no IndexError from indexing the permutation).
C18_RemovedCountMeetsTarget ==
    /\ ~(pc = "error" /\ err = "IndexError")
    /\ Attack =>
            \A i \in DOMAIN results :
                Len(snaps[i].nodes) = call.n - Min(results[i].removed_count, call.n)
    /\ call.fn = "curve" =>
            \A i \in DOMAIN results :
                Len(snaps[i].nodes) =
                    call.n - Min(TargetRemove(results[i].q, call.n), call.n)

\* floor(n * f) for a fraction f >= 0, stated without division.
FloorOfProduct(n, f) ==
    CHOOSE m \in 0..(n * f.num) : m * f.den <= n * f.num /\ (m + 1) * f.den > n * f.num

\* C19: for a list of n >= 0 nodes, steps >= 1 and 0 <= max_frac <= 1,
\* removal_sequence_by_fraction returns a strictly increasing list of counts
\* (sorted, without duplicates) that starts with 0, ends with
\* floor(n * max_frac) and has at most steps + 1 entries.
C19_ScheduleWellFormed ==
    (pc = "schedule_done" /\ call.steps >= 1 /\ RLeq(Zero, call.max_frac)
            /\ RLeq(call.max_frac, Rat(1, 1))) =>
        /\ Len(call.cum) >= 1
        /\ Len(call.cum) <= call.steps + 1
        /\ call.cum[1] = 0
        /\ call.cum[Len(call.cum)] = FloorOfProduct(call.n, call.max_frac)
        /\ \A i \in 1..(Len(call.cum) - 1) : call.cum[i] < call.cum[i + 1]

C19_Witness ==
    /\ pc = "schedule_done"
    /\ Len(call.cum) >= 3
    /\ Len(call.cum) < call.steps + 1
    /\ call.cum[Len(call.cum)] < call.n

\* The rows are in strictly increasing order of the fraction frac(r) over the
\* index range lo..hi.
StrictlyIncreasingRows(lo, hi, frac(_)) ==
    \A i \in lo..(hi - 1) :
        RLeq(frac(results[i]), frac(results[i + 1])) /\ frac(results[i]) # frac(results[i + 1])

\* C20: a run appends one checkpoint per schedule entry, in schedule order: at
\* any moment the rows are the checkpoints of the first entries of the
\* schedule, a returned run has one for every entry, and within a run the
\* removed fraction strictly increases (for removal_curve, whose schedule is
\* the caller's qs, the rows carry the entries of qs one by one);
\* simulate_random_attacks appends the sequence once per trial, trial after
\* trial, and returns trials x |schedule| rows.
C20_OneCheckpointPerScheduleEntry ==
    /\ (call.fn = "targeted" /\ pc \in {"targeted_loop", "done"}) =>
            /\ Len(results) = IF pc = "done" THEN Len(call.cum) ELSE ci - 1
            /\ \A i \in DOMAIN results : results[i].removed_count = call.cum[i]
            /\ StrictlyIncreasingRows(1, Len(results), LAMBDA r : r.removed_frac)
    /\ (call.fn = "random" /\ pc \in {"random_trial", "random_loop", "done"}) =>
            LET L == Len(call.cum)
            IN  /\ Len(results) = IF pc = "random_loop" THEN trial * L + ci - 1
                                  ELSE trial * L
                /\ pc = "done" => Len(results) = call.trials * L
                /\ \A i \in DOMAIN results :
                        /\ results[i].trial = (i - 1) \div L
                        /\ results[i].removed_count = call.cum[((i - 1) % L) + 1]
                /\ \A t \in 0..trial :
                        StrictlyIncreasingRows(t * L + 1, Min((t + 1) * L, Len(results)),
                                               LAMBDA r : r.removed_frac)
    /\ (call.fn = "curve" /\ pc \in {"curve_loop", "sample_pairs", "done"}) =>
            /\ Len(results) = IF pc = "done" THEN Len(call.qs) ELSE ci - 1
            /\ \A i \in DOMAIN results : results[i].q = call.qs[i]

C20_Witness ==
    /\ call.fn = "random" /\ pc = "done"
    /\ call.trials = 2
    /\ Len(call.cum) = 2
    /\ Len(results) = 4

\* o lists every node of g exactly once, in descending degree, nodes of equal
\* degree in the enumeration order of g.
IsStableDegreeOrdering(o, g) == IsStableDescending(o, g, DegreeMap(g))

\* The orderings the ranking step of simulate_targeted_attack can return for
\* graph g and strategy key.
TargetedLists(g, key) ==
    {out.order : out \in {x \in TargetedOrderings(g, key) : x.raised = "none"}}

JoinedPairs == {p \in call.pairs : \E d \in 1..Len(G.nodes) : Dist(G, p[1], p[2]) = d}

\* C22: approx_efficiency returns the mean of 1/dist(u, v) over the sampled
\* pairs joined by a path (a pair without a path is in neither the sum nor the
\* denominator), and 0.0 when no sampled pair is joined.
C22_EfficiencyOverJoinedPairs ==
    (call.fn = "approx_efficiency" /\ pc = "done") =>
        IF JoinedPairs = {}
        THEN call.value = Zero
        ELSE RMul(call.value, Rat(Cardinality(JoinedPairs), 1))
                = SumRat([p \in JoinedPairs |-> Rat(1, Dist(G, p[1], p[2]))])

C22_Witness ==
    /\ call.fn = "approx_efficiency" /\ pc = "done"
    /\ JoinedPairs # {}
    /\ JoinedPairs # call.pairs
    /\ call.value # Zero

\* C23: sample_pairs returns exactly m pairs, pairwise distinct (a set of m
\* elements), each of two different nodes of the given node set, stored with
\* u < v.
C23_SamplePairsDistinctNormalised ==
    (call.fn = "approx_efficiency" /\ pc \in {"sampled", "done"}) =>
        /\ Cardinality(call.pairs) = call.m
        /\ \A p \in call.pairs :
              /\ p[1] \in NodeSet(G) /\ p[2] \in NodeSet(G)
              /\ p[1] # p[2]
              /\ p[1] < p[2]

C23_Witness ==
    /\ call.fn = "approx_efficiency" /\ pc = "sampled"
    /\ call.m = 2
    /\ Cardinality(call.pairs) = 2
    /\ Len(G.nodes) = 3

\* The average shortest-path length a checkpoint on graph g is to report: NaN
\* when the giant component of g has fewer than 2 nodes, otherwise the average
\* over the giant component alone.
GiantPathLength(g) ==
    IF LargestComponentSize(g) < 2 THEN NaN
    ELSE average_shortest_path_length(
             Restricted(g, FilterSeq(g.nodes, MaxByLen(connected_components(g)))))

\* C24: at every checkpoint the average shortest-path length is that of the
\* current giant component, and NaN whenever the giant component has fewer
\* than 2 nodes (avg_path_length of attack.py's rows, L of removal_curve's).
C24_PathLengthOnGiantOnly ==
    /\ Attack =>
            \A i \in DOMAIN results :
                results[i].avg_path_length = GiantPathLength(snaps[i])
    /\ call.fn = "curve" =>
            \A i \in DOMAIN results : results[i].L = GiantPathLength(snaps[i])

\* The ids of the airport rows that have one, and of those among them whose
\* row also has its coordinate.
RowIds == {call.airports[i].id : i \in DOMAIN call.airports} \ {MissingId}

RowIdsWithCoordinate ==
    {call.airports[i].id : i \in {j \in DOMAIN call.airports : call.airports[j].lat # "nan"}}
        \ {MissingId}

\* The edges of the route rows between two different ids of the set ids.
RowEdges(ids) ==
    {{call.routes[i].src, call.routes[i].dst} :
        i \in {j \in DOMAIN call.routes :
                 /\ call.routes[j].src # call.routes[j].dst
                 /\ call.routes[j].src \in ids
                 /\ call.routes[j].dst \in ids}}

\* C25 as claimed: loading never aborts, and the graph that was built has a
\* node for exactly the airport rows that have their coordinate, and an edge
\* for exactly the route rows between two different such airports.
C25_MalformedRowsDropped ==
    /\ call.fn = "build_full_graph" => err = "none"
    /\ (call.fn = "build_full_graph" /\ pc \in {"built", "working"}) =>
            /\ NodeSet(G) = RowIdsWithCoordinate
            /\ G.edges = RowEdges(RowIdsWithCoordinate)

\* C25 amended: loading never aborts; a route row that names an unknown airport
\* id or "\N", or runs from an airport to itself, creates no edge; an airport
\* row without an id creates no node; an airport row with a missing coordinate
\* is kept as a node whose coordinate is NaN.
C25_MalformedRoutesDropped ==
    /\ call.fn = "build_full_graph" => err = "none"
    /\ (call.fn = "build_full_graph" /\ pc \in {"built", "working"}) =>
            /\ NodeSet(G) = RowIds
            /\ Len(G.nodes) = Cardinality(RowIds)
            /\ G.edges = RowEdges(RowIds)
            /\ \A v \in NodeSet(G) :
                  G.lat[v] = "nan" =>
                      \E i \in DOMAIN call.airports :
                          call.airports[i].id = v /\ call.airports[i].lat = "nan"

C25_Witness ==
    /\ call.fn = "build_full_graph" /\ pc = "built" /\ removed = {}
    /\ Len(call.airports) = 2 /\ Len(G.nodes) = 2
    /\ \E v \in NodeSet(G) : G.lat[v] = "nan"
    /\ Len(call.routes) = 1
    /\ call.routes[1].src = call.routes[1].dst
    /\ G.edges = {}

GraphIsSimple(g) ==
    /\ \A e \in g.edges : Cardinality(e) = 2 /\ e \subseteq NodeSet(g)
    /\ Cardinality(NodeSet(g)) = Len(g.nodes)

\* C26: in every state of a graph, while it is built from the tables and after
\* every node removal, the graph is simple and undirected: every edge is an
\* unordered pair of two different nodes that are in the graph (no self-loop,
\* no dangling endpoint; an edge set holds no edge twice), and no node is
\* listed twice.
C26_GraphSimpleAndClosed ==
    /\ GraphIsSimple(G)
    /\ GraphIsSimple(Gc)

C26_Witness ==
    /\ call.fn = "build_full_graph" /\ pc = "working"
    /\ Cardinality(removed) = 1
    /\ Len(W.nodes) = 1
    /\ Len(G.nodes) = 2
    /\ \E i \in DOMAIN call.routes :
          /\ call.routes[i].src \in removed
          /\ call.routes[i].dst \in NodeSet(W)
          /\ {call.routes[i].src, call.routes[i].dst} \in G.edges

\* The normalised pairs of different nodes of the giant component of the
\* working graph: all that sample_pairs' set can ever hold at a checkpoint.
GiantPairs == UnorderedPairs(MaxByLen(connected_components(W)))

\* C27: removal_curve terminates and returns one tuple per entry of qs
\* whatever giant component remains at a checkpoint: a call is never inside
\* sample_pairs' `while len(pairs) < m` loop with a giant component that has
\* fewer than m_pairs pairs of different nodes, where no draw can make the set
\* grow to m_pairs and the loop cannot end.
C27_RemovalCurveReturns ==
    ~(/\ call.fn = "curve"
      /\ pc = "sample_pairs"
      /\ Len(W.nodes) > 0
      /\ Cardinality(GiantPairs) < call.m_pairs)

\* The number of removals the run in progress has made from its working graph.
RemovalsMade == IF call.fn = "curve" THEN remove_count ELSE Cardinality(removed)

\* The run is inside its loop over the schedule, or has returned from it with
\* at least one checkpoint: the working graph is the copy the run made.
InRemovalLoop ==
    \/ pc \in {"random_loop", "targeted_loop", "curve_loop", "sample_pairs"}
    \/ pc = "done" /\ snaps # <<>>

\* C28: along a single run (one trial of simulate_random_attacks, one call of
\* simulate_targeted_attack or removal_curve) the working graphs at successive
\* checkpoints lose nodes only: the set removed by a checkpoint is contained
\* in the set removed by the next one, the next graph is the subgraph of the
\* previous one induced by the nodes it still has, and a largest component of
\* the next graph has no more nodes than one of the previous graph.  No node is removed twice: the removals the run has counted
\* are exactly the nodes missing from its working graph.
C28_CheckpointsNested ==
    (call.fn \in {"random", "targeted", "curve"}) =>
        /\ \A i, j \in DOMAIN snaps :
              (j = i + 1 /\ SameRun(i, j)) =>
                  /\ RemovedAt(i) \subseteq RemovedAt(j)
                  /\ NodeSet(snaps[j]) \subseteq NodeSet(snaps[i])
                  /\ snaps[j].nodes = FilterSeq(snaps[i].nodes, NodeSet(snaps[j]))
                  /\ snaps[j].edges =
                         {e \in snaps[i].edges : e \subseteq NodeSet(snaps[j])}
                  /\ LargestComponentSize(snaps[j]) <= LargestComponentSize(snaps[i])
        /\ InRemovalLoop =>
              /\ NodeSet(W) \subseteq NodeSet(G_in)
              /\ Len(W.nodes) + RemovalsMade = Len(G_in.nodes)

\* A returned run with three checkpoints: the second has removed more nodes
\* than the first and its giant component is smaller, the third has removed
\* more again.
C28_Witness ==
    /\ pc = "done"
    /\ call.fn \in {"random", "targeted", "curve"}
    /\ \E i, j, k \in DOMAIN snaps :
          /\ i < j /\ j < k
          /\ SameRun(i, j) /\ SameRun(j, k)
          /\ RemovedAt(i) # RemovedAt(j)
          /\ RemovedAt(j) # RemovedAt(k)
          /\ LargestComponentSize(snaps[j]) < LargestComponentSize(snaps[i])

\* The airports of country c in g.
AirportsOf(g, c) == {v \in NodeSet(g) : g.country[v] = c}

\* The row country_knockout_impact_light owes for country c, computed from the
\* caller's graph alone: c's airports removed, and nothing else.
KnockoutRowHolds(r) ==
    LET gone   == AirportsOf(G_in, r.Country)
        after  == LargestComponentSize(
                      Restricted(G_in, FilterSeq(G_in.nodes, NodeSet(G_in) \ gone)))
        before == LargestComponentSize(G_in)
        n      == Len(G_in.nodes)
    IN  /\ r.Country \in Countries(G_in)
        /\ r.RemovedAirports = Cardinality(gone)
        /\ r.GCC_nodes_after = after
        /\ r.RemovedAirports + r.GCC_nodes_after <= n
        /\ r.S_ratio_after = Rat(after, n)
        /\ r.Drop_in_S_ratio = Rat(before - after, n)
        /\ RLeq(Zero, r.Drop_in_S_ratio)

\* C29: country_knockout_impact_light on a graph with nodes returns exactly
\* one row per distinct country of G; each row is what removing that country's
\* airports, and no others, from G gives: RemovedAirports + GCC_nodes_after
\* <= |V(G)|, Drop_in_S_ratio = (giant size before - giant size after) / |V(G)|
\* >= 0; the returned rows are in order of non-increasing Drop_in_S_ratio.
\* While the loop runs, the rows so far are those of different countries.
C29_KnockoutRows ==
    (call.fn = "knockout" /\ pc \in {"knockout_loop", "done"}) =>
        /\ \A i \in DOMAIN results : KnockoutRowHolds(results[i])
        /\ \A i, j \in DOMAIN results :
              i # j => results[i].Country # results[j].Country
        /\ pc = "done" =>
              /\ {results[i].Country : i \in DOMAIN results} = Countries(G_in)
              /\ Len(results) = Cardinality(Countries(G_in))
              /\ \A i \in 1..(Len(results) - 1) :
                    RLeq(results[i + 1].Drop_in_S_ratio, results[i].Drop_in_S_ratio)

\* A returned knock-out table of at least two countries with different drops,
\* whose first row is not the first country in name order, and one of whose
\* removals splits what is left (fewer than |V| - removed nodes in the giant
\* component).
C29_Witness ==
    /\ call.fn = "knockout" /\ pc = "done"
    /\ Len(results) >= 2
    /\ results[1].Drop_in_S_ratio # results[2].Drop_in_S_ratio
    /\ \E i \in DOMAIN results : \A j \in DOMAIN results :
          results[i].Country <= results[j].Country /\ i # 1
    /\ \E i \in DOMAIN results :
          results[i].RemovedAirports + results[i].GCC_nodes_after < Len(G_in.nodes)
==========================================================================
